---- MODULE Spec2Model ----
(***************************************************************************)
(* Model of calculator.py: the token, iteration, output and cost           *)
(* estimators and the main() pipeline that runs them for the selected      *)
(* providers and saves the result to last_estimate.json.                   *)
(*                                                                         *)
(* Text is a sequence of one-character strings.  Python floats are IEEE    *)
(* doubles: a double is modelled as a record [m, e] of value m * 2^e,      *)
(* where m is a natural number held as a little-endian sequence of bits,   *)
(* and every float operation rounds its exact result to 53 significant     *)
(* bits, ties to even, as the hardware does.                               *)
(***************************************************************************)
EXTENDS Integers, Sequences, FiniteSets, TLC

\* ------------------------------------------------------------------------
\* Text primitives (str.lower, str.split, str.strip, the `in` operator)
\* ------------------------------------------------------------------------

Whitespace == {" ", "\t"}

UpperToLower ==
    [c \in {"A","B","C","D","E","F","G","H","I","J","K","L","M","N","O","P","Q",
            "R","S","T","U","V","W","X","Y","Z"} |->
        CASE c = "A" -> "a" [] c = "B" -> "b" [] c = "C" -> "c" [] c = "D" -> "d"
          [] c = "E" -> "e" [] c = "F" -> "f" [] c = "G" -> "g" [] c = "H" -> "h"
          [] c = "I" -> "i" [] c = "J" -> "j" [] c = "K" -> "k" [] c = "L" -> "l"
          [] c = "M" -> "m" [] c = "N" -> "n" [] c = "O" -> "o" [] c = "P" -> "p"
          [] c = "Q" -> "q" [] c = "R" -> "r" [] c = "S" -> "s" [] c = "T" -> "t"
          [] c = "U" -> "u" [] c = "V" -> "v" [] c = "W" -> "w" [] c = "X" -> "x"
          [] c = "Y" -> "y" [] c = "Z" -> "z"]

\* text.lower()
Lower(text) ==
    [i \in 1..Len(text) |->
        IF text[i] \in DOMAIN UpperToLower THEN UpperToLower[text[i]] ELSE text[i]]

\* len(text.split()): the number of maximal runs of non-whitespace characters
WordCount(text) ==
    Cardinality({i \in 1..Len(text) :
        /\ text[i] \notin Whitespace
        /\ (i = 1 \/ text[i-1] \in Whitespace)})

\* bool(text.strip()): some character is not whitespace
StripNonEmpty(text) == \E i \in 1..Len(text) : text[i] \notin Whitespace

\* kw in text: kw occurs as a contiguous substring
Contains(text, kw) ==
    \E i \in 1..(Len(text) - Len(kw) + 1) :
        /\ text[i] = kw[1]
        /\ \A j \in 2..Len(kw) : text[i + j - 1] = kw[j]

\* ------------------------------------------------------------------------
\* Module constants
\* ------------------------------------------------------------------------

CODING_KEYWORDS == <<
    <<"c","o","d","e">>,
    <<"f","u","n","c","t","i","o","n">>,
    <<"s","c","r","i","p","t">>,
    <<"c","l","a","s","s">>,
    <<"m","o","d","u","l","e">>,
    <<"p","a","c","k","a","g","e">>,
    <<"a","l","g","o","r","i","t","h","m">>,
    <<"r","e","f","a","c","t","o","r">>,
    <<"o","p","t","i","m","i","z","e">>,
    <<"d","e","b","u","g">>,
    <<"c","o","m","p","i","l","e">>,
    <<"b","u","i","l","d">>,
    <<"d","e","p","l","o","y">>,
    <<"t","e","s","t">>,
    <<"i","n","t","e","g","r","a","t","i","o","n">>,
    <<"u","n","i","t"," ","t","e","s","t">>,
    <<"s","y","n","t","a","x">>,
    <<"v","a","r","i","a","b","l","e">>,
    <<"l","o","o","p">>,
    <<"r","e","c","u","r","s","i","o","n">>,
    <<"d","a","t","a"," ","s","t","r","u","c","t","u","r","e">>,
    <<"a","p","i">>,
    <<"e","n","d","p","o","i","n","t">>,
    <<"d","a","t","a","b","a","s","e">>,
    <<"s","q","l">>,
    <<"j","s","o","n">>,
    <<"x","m","l">>,
    <<"f","r","o","n","t","e","n","d">>,
    <<"b","a","c","k","e","n","d">>,
    <<"u","i">>,
    <<"u","x">>,
    <<"f","r","a","m","e","w","o","r","k">>,
    <<"l","i","b","r","a","r","y">>,
    <<"p","e","r","f","o","r","m","a","n","c","e">>,
    <<"s","c","a","l","a","b","i","l","i","t","y">>,
    <<"a","r","c","h","i","t","e","c","t","u","r","e">>,
    <<"c","i","/","c","d">>,
    <<"p","i","p","e","l","i","n","e">>,
    <<"e","x","c","e","p","t","i","o","n">>,
    <<"e","r","r","o","r"," ","h","a","n","d","l","i","n","g">>,
    <<"l","o","g","g","i","n","g">>,
    <<"t","h","r","e","a","d">>,
    <<"c","o","n","c","u","r","r","e","n","c","y">>,
    <<"t","h","r","e","a","d","i","n","g">>,
    <<"a","s","y","n","c">>,
    <<"a","w","a","i","t">>,
    <<"d","o","c","k","e","r">>,
    <<"c","o","n","t","a","i","n","e","r">>,
    <<"m","i","c","r","o","s","e","r","v","i","c","e">>,
    <<"r","e","f","a","c","t","o","r","i","n","g">>,
    <<"o","p","t","i","m","i","z","a","t","i","o","n">>,
    <<"v","e","r","s","i","o","n"," ","c","o","n","t","r","o","l">>,
    <<"g","i","t">>,
    <<"m","e","r","g","e">>,
    <<"b","r","a","n","c","h">>
>>

\* ------------------------------------------------------------------------
\* IEEE-754 double arithmetic on non-negative values.  A natural number is
\* a little-endian sequence of limbs in base LimbBase; a double is
\* [m |-> natural, e |-> exponent] of value m * 2^e.
\* ------------------------------------------------------------------------

LimbBits == 11
LimbBase == 2^LimbBits

\* the significand width of a double
MantissaBits == 53

Limb(n, i) == IF i >= 1 /\ i <= Len(n) THEN n[i] ELSE 0

\* drop the zero limbs at the high end
Trim(n) ==
    LET nz == {i \in 1..Len(n) : n[i] # 0}
    IN  IF nz = {} THEN <<>>
        ELSE SubSeq(n, 1, CHOOSE i \in nz : \A j \in nz : j <= i)

\* a small int (below 2^31) as limbs, and back
NatToLimbs(v) ==
    Trim(<<v % LimbBase, (v \div LimbBase) % LimbBase, v \div (LimbBase * LimbBase)>>)

LimbsToNat(n) ==
    Limb(n, 1) + LimbBase * Limb(n, 2) + LimbBase * LimbBase * Limb(n, 3)
        + (IF Len(n) > 3 THEN 2147483647 ELSE 0)

\* the number of significant bits of n
BitLen(n) ==
    IF n = <<>> THEN 0
    ELSE LimbBits * (Len(n) - 1)
            + Cardinality({k \in 0..(LimbBits - 1) : 2^k <= n[Len(n)]})

\* bit i of n, bit 0 the lowest
BitAt(n, i) == (Limb(n, (i \div LimbBits) + 1) \div 2^(i % LimbBits)) % 2

\* some bit of n below bit d is set
LowBitsSet(n, d) == \E i \in 0..(d - 1) : BitAt(n, i) = 1

\* floor(n / 2^d)
ShiftRight(n, d) ==
    LET q == d \div LimbBits
        s == d % LimbBits
    IN  Trim([i \in 1..(Len(n) - q) |->
                (Limb(n, i + q) \div 2^s)
                    + (Limb(n, i + q + 1) % 2^s) * 2^(LimbBits - s)])

\* n * 2^k
ShiftLeft(n, k) ==
    LET q == k \div LimbBits
        s == k % LimbBits
    IN  Trim([j \in 1..(Len(n) + q + 1) |->
                ((Limb(n, j - q) * 2^s) % LimbBase)
                    + (Limb(n, j - q - 1) \div 2^(LimbBits - s))])

RECURSIVE AddFrom(_, _, _, _)
AddFrom(a, b, i, c) ==
    IF i > Len(a) /\ i > Len(b) THEN (IF c = 0 THEN <<>> ELSE <<c>>)
    ELSE <<(Limb(a, i) + Limb(b, i) + c) % LimbBase>>
            \o AddFrom(a, b, i + 1, (Limb(a, i) + Limb(b, i) + c) \div LimbBase)

BigAdd(a, b) == AddFrom(a, b, 1, 0)

\* the sum of a[i] * b[k+1-i] from limb i of a upwards
RECURSIVE ColSum(_, _, _, _)
ColSum(a, b, k, i) ==
    IF i > Len(a) THEN 0
    ELSE a[i] * Limb(b, k + 1 - i) + ColSum(a, b, k, i + 1)

RECURSIVE MulFrom(_, _, _, _)
MulFrom(a, b, k, c) ==
    IF k > Len(a) + Len(b) THEN NatToLimbs(c)
    ELSE <<(ColSum(a, b, k, 1) + c) % LimbBase>>
            \o MulFrom(a, b, k + 1, (ColSum(a, b, k, 1) + c) \div LimbBase)

BigMul(a, b) == IF a = <<>> \/ b = <<>> THEN <<>> ELSE Trim(MulFrom(a, b, 1, 0))

FlZero == [m |-> <<>>, e |-> 0]

\* the position of the lowest set bit of n (n is not zero)
LowestSetBit(n) ==
    LET li == CHOOSE i \in 1..Len(n) : n[i] # 0 /\ \A j \in 1..(i - 1) : n[j] = 0
        bi == CHOOSE k \in 0..(LimbBits - 1) :
                 (n[li] \div 2^k) % 2 = 1 /\ n[li] % 2^k = 0
    IN  (li - 1) * LimbBits + bi

\* one representation per value: the significand is odd, or the value is zero
FlNorm(m, e) ==
    IF m = <<>> THEN FlZero
    ELSE [m |-> ShiftRight(m, LowestSetBit(m)), e |-> e + LowestSetBit(m)]

\* round m * 2^e (plus a positive remainder below the last bit when sticky)
\* to MantissaBits significant bits, ties to even
FlRound(m, e, sticky) ==
    LET d == BitLen(m) - MantissaBits
    IN  IF d <= 0 THEN FlNorm(m, e)
        ELSE LET kept == ShiftRight(m, d)
                 half == BitAt(m, d - 1) = 1
                 rest == sticky \/ LowBitsSet(m, d - 1)
                 up   == half /\ (rest \/ BitAt(kept, 0) = 1)
             IN  FlNorm(IF up THEN BigAdd(kept, <<1>>) ELSE kept, e + d)

\* float(n) for a small non-negative int
FlFromInt(n) == FlNorm(NatToLimbs(n), 0)

\* the first n fractional limbs of r / b (r < b), lowest limb first
RECURSIVE DivLimbs(_, _, _)
DivLimbs(r, b, n) ==
    IF n = 0 THEN <<>>
    ELSE DivLimbs((r * LimbBase) % b, b, n - 1) \o <<(r * LimbBase) \div b>>

\* the remainder left after those n limbs
RECURSIVE DivRem(_, _, _)
DivRem(r, b, n) == IF n = 0 THEN r ELSE DivRem((r * LimbBase) % b, b, n - 1)

\* the fractional limbs a quotient is developed to before it is rounded
FracLimbs == 8

\* a / b for ints a >= 0 and 0 < b < 2^20: true division, correctly rounded.
\* Also the value of a decimal literal a/b (0.92 is FlDiv(92, 100)).
FlDiv(a, b) ==
    IF a = 0 THEN FlZero
    ELSE FlRound(Trim(DivLimbs(a % b, b, FracLimbs) \o NatToLimbs(a \div b)),
                 0 - FracLimbs * LimbBits,
                 DivRem(a % b, b, FracLimbs) # 0)

FlAdd(f, g) ==
    LET e == IF f.e < g.e THEN f.e ELSE g.e
    IN  FlRound(BigAdd(ShiftLeft(f.m, f.e - e), ShiftLeft(g.m, g.e - e)), e, FALSE)

FlMul(f, g) == FlRound(BigMul(f.m, g.m), f.e + g.e, FALSE)

\* int(f): truncation
FlTrunc(f) ==
    IF f.e >= 0 THEN LimbsToNat(ShiftLeft(f.m, f.e))
    ELSE LimbsToNat(ShiftRight(f.m, 0 - f.e))

\* math.ceil(f)
FlCeil(f) ==
    FlTrunc(f) + (IF f.e < 0 /\ LowBitsSet(f.m, 0 - f.e) THEN 1 ELSE 0)

\* the digits of f"{f:.8f}" read as a count of 10^-8: f * 10^8 rounded to the
\* nearest integer, ties to even, from the exact binary value of f
Format8(f) ==
    LET p    == [m |-> BigMul(f.m, NatToLimbs(100000000)), e |-> f.e]
        t    == FlTrunc(p)
        half == p.e < 0 /\ BitAt(p.m, 0 - p.e - 1) = 1
        rest == p.e < -1 /\ LowBitsSet(p.m, 0 - p.e - 1)
    IN  IF half /\ (rest \/ t % 2 = 1) THEN t + 1 ELSE t

\* ------------------------------------------------------------------------
\* Program state
\* ------------------------------------------------------------------------

VARIABLES
    mode,                   \* "script": run as __main__; "import": a caller
                            \* applies one of the module's functions
    PRICING,                \* the module-level price table
    run,                    \* which invocation of main() this is
    pc,                     \* position inside main()
    models,                 \* main(): the dialog's result
    prompt_text,            \* main(): the prompt typed
    input_tokens,           \* main(): locals of the estimation block
    iterations,
    output_tokens_per_iter,
    total_output_tokens,
    total_input_tokens,
    results,                \* main(): provider -> result record
    loop_index,             \* main(): position of `for m in models`
    display,                \* what print_formatted_text has shown
    calls,                  \* functions main() has called in this run
    saved,                  \* content of last_estimate.json
    call                    \* import mode: the call made and its result

vars == <<mode, PRICING, run, pc, models, prompt_text, input_tokens, iterations,
          output_tokens_per_iter, total_output_tokens, total_input_tokens,
          results, loop_index, display, calls, saved, call>>

main_locals == <<models, prompt_text, input_tokens, iterations,
                 output_tokens_per_iter, total_output_tokens,
                 total_input_tokens, results, loop_index>>

\* ------------------------------------------------------------------------
\* Bounds and input samples
\* ------------------------------------------------------------------------

\* random.uniform(0.9, 1.1) is sampled on a grid of 2 * JitterSteps + 1 points
JitterSteps == 2

\* how many times the script is run; last_estimate.json outlives a run
MaxRuns == 2

JitterFactors ==
    {FlDiv(10 * JitterSteps + i, 10 * JitterSteps) : i \in (0 - JitterSteps)..JitterSteps}

Repeat(s, n) == [i \in 1..(n * Len(s)) |-> s[((i - 1) % Len(s)) + 1]]

ScenarioA ==
    <<"W","r","i","t","e"," ","a"," ","f","u","n","c","t","i","o","n"," ","t","o"," ",
      "p","a","r","s","e"," ","J","S","O","N"," ","a","n","d"," ","a","d","d"," ",
      "u","n","i","t"," ","t","e","s","t","s">>

BlankPrompts == {<<>>, <<" ", "\t", " ">>}

Prompts ==
    { ScenarioA,
      <<"a","p","i"," ","u","i"," ","x","x">>,
      <<"R","e","f","a","c","t","o","r","i","n","g">>,
      <<" ","h","i"," "," ","y","o","u","\t">>,
      <<"x">>,
      Repeat(<<"f","i","x"," ","S","Q","L"," ">>, 22) }

\* a prompt of the top tier (more than 200 tokens), for direct calls
LongPrompt == Repeat(<<"u","i"," ">>, 200)

CallTexts == BlankPrompts \cup Prompts \cup {LongPrompt}

\* prompt-token counts around the tier boundaries
PromptTokenSamples == {0, 1, 3, 13, 49, 50, 51, 200, 201, 480}

\* token totals handed to calculate_cost
CostTokenSamples == {0, 1, 2, 78, 780, 3120, 49999}

ModelIds == {"claude", "gemini", "gpt", "Claude", ""}

\* what checkboxlist_dialog(...).run() can return: the ticked values in the
\* order they were ticked; <<>> stands for both [] and None (Cancel), which
\* `not models` does not tell apart
ModelSelections ==
    {<<>>, <<"claude">>, <<"gemini">>, <<"claude", "gemini">>, <<"gemini", "claude">>}

\* ------------------------------------------------------------------------
\* The module's functions
\* ------------------------------------------------------------------------

Max2(a, b) == IF a >= b THEN a ELSE b

estimate_tokens_by_chars(text) == Max2(1, FlCeil(FlDiv(Len(text), 4)))

\* variant: the floor of 1 is left out
estimate_tokens_by_words_nofloor(text) == FlTrunc(FlDiv(4 * WordCount(text), 3))

\* words / 0.75: the literal 0.75 is exactly 3/4, so the quotient is the
\* correctly rounded value of 4 * words / 3
estimate_tokens_by_words(text) == Max2(1, FlTrunc(FlDiv(4 * WordCount(text), 3)))

estimate_input_tokens(text) ==
    FlTrunc(FlDiv(estimate_tokens_by_chars(text) + estimate_tokens_by_words(text), 2))

\* sum(1 for kw in CODING_KEYWORDS if kw in prompt_lower)
HitsIn(prompt_lower) ==
    Cardinality({k \in 1..Len(CODING_KEYWORDS) :
        Contains(prompt_lower, CODING_KEYWORDS[k])})

KeywordHits(text) == HitsIn(Lower(text))

\* variant: the tier test reads `prompt_tokens <= 50`
deduce_iterations_tier(text, prompt_tokens, random_factor) ==
    LET base_iterations ==
            IF prompt_tokens <= 50 THEN 2
            ELSE IF prompt_tokens <= 200 THEN 5
            ELSE 15
        estimated_iterations == base_iterations + KeywordHits(text)
    IN  Max2(1, FlTrunc(FlMul(FlFromInt(estimated_iterations), random_factor)))

\* variant: the jitter is applied to the keyword hits alone and not clamped
deduce_iterations_noclamp(text, prompt_tokens, random_factor) ==
    FlTrunc(FlMul(FlFromInt(KeywordHits(text)), random_factor))

\* random_factor is the value random.uniform(0.9, 1.1) returns inside the call
deduce_iterations(text, prompt_tokens, random_factor) ==
    LET base_iterations ==
            IF prompt_tokens < 50 THEN 2
            ELSE IF prompt_tokens <= 200 THEN 5
            ELSE 15
        estimated_iterations == base_iterations + KeywordHits(text)
    IN  Max2(1, FlTrunc(FlMul(FlFromInt(estimated_iterations), random_factor)))

estimate_output_tokens_per_iteration(text, prompt_tokens) ==
    LET quality_factor ==
            FlAdd(FlFromInt(1), FlDiv(KeywordHits(text), Max2(1, WordCount(text))))
        multiplier ==
            IF prompt_tokens < 50 THEN 10
            ELSE IF prompt_tokens <= 200 THEN 8
            ELSE 5
    IN  FlTrunc(FlMul(FlFromInt(prompt_tokens * multiplier), quality_factor))

\* the literals of the price table, USD per million tokens
PricingLiteral ==
    [ claude |-> [input_per_m |-> FlDiv(300, 100), output_per_m |-> FlDiv(1500, 100)],
      gemini |-> [input_per_m |-> FlDiv(125, 100), output_per_m |-> FlDiv(1000, 100)] ]

USD_TO_EUR == FlDiv(92, 100)

\* variant: PRICING.get(model, PRICING["claude"])
calculate_cost_default(tokens_input, tokens_output, model) ==
    LET price    == IF model \in DOMAIN PRICING THEN PRICING[model] ELSE PRICING["claude"]
        cost_in  == FlMul(FlDiv(tokens_input, 1000000), price.input_per_m)
        cost_usd == FlAdd(cost_in,
                          FlMul(FlDiv(tokens_output, 1000000), price.output_per_m))
    IN  Format8(FlMul(cost_usd, USD_TO_EUR))

\* variant: the result is floored at one unit, as the token estimates are
calculate_cost_floor(tokens_input, tokens_output, model) ==
    IF model \notin DOMAIN PRICING THEN 0
    ELSE LET price    == PRICING[model]
             cost_in  == FlMul(FlDiv(tokens_input, 1000000), price.input_per_m)
             cost_usd == FlAdd(cost_in,
                               FlMul(FlDiv(tokens_output, 1000000), price.output_per_m))
         IN  Max2(1, Format8(FlMul(cost_usd, USD_TO_EUR)))

\* The result is the float nearest to a decimal with 8 places; it is held as
\* that decimal's count of 10^-8 EUR (float() maps these one-to-one and in
\* order).  0.0 is 0.
calculate_cost(tokens_input, tokens_output, model) ==
    IF model \notin DOMAIN PRICING THEN 0
    ELSE LET price    == PRICING[model]
             cost_in  == FlMul(FlDiv(tokens_input, 1000000), price.input_per_m)
             cost_usd == FlAdd(cost_in,
                               FlMul(FlDiv(tokens_output, 1000000), price.output_per_m))
         IN  Format8(FlMul(cost_usd, USD_TO_EUR))

\* ------------------------------------------------------------------------
\* Initial state
\* ------------------------------------------------------------------------

EmptyResults == [m \in {} |-> 0]

NoDisplay == [text |-> "", blocks |-> <<>>]

NoFile == [written |-> FALSE, models |-> <<>>, prompt |-> <<>>, results |-> EmptyResults]

NoCall == [fn |-> "none", text |-> <<>>, tokens |-> 0, tokens_output |-> 0,
           model |-> "", factor |-> FlZero, ret |-> 0]

Init ==
    /\ mode \in {"script", "import"}
    /\ PRICING = PricingLiteral
    /\ run = 1
    /\ pc = "select"
    /\ models = <<>>
    /\ prompt_text = <<>>
    /\ input_tokens = 0
    /\ iterations = 0
    /\ output_tokens_per_iter = 0
    /\ total_output_tokens = 0
    /\ total_input_tokens = 0
    /\ results = EmptyResults
    /\ loop_index = 0
    /\ display = NoDisplay
    /\ calls = {}
    /\ saved = NoFile
    /\ call = NoCall

\* ------------------------------------------------------------------------
\* main()
\* ------------------------------------------------------------------------

\* models = checkboxlist_dialog(...).run(); if not models: print; return
SelectModels ==
    /\ mode = "script" /\ pc = "select"
    /\ \E sel \in ModelSelections :
        /\ models' = sel
        /\ IF sel = <<>>
           THEN /\ display' = [text |-> "No model selected. Exiting.", blocks |-> <<>>]
                /\ pc' = "exit"
           ELSE /\ display' = display
                /\ pc' = "prompt"
    /\ UNCHANGED <<mode, PRICING, run, prompt_text, input_tokens, iterations,
                   output_tokens_per_iter, total_output_tokens, total_input_tokens,
                   results, loop_index, calls, saved, call>>

\* variant: only `if not prompt_text`, the strip() test is missing
ReadPrompt_nostrip ==
    /\ mode = "script" /\ pc = "prompt"
    /\ \E text \in BlankPrompts \cup Prompts :
        /\ prompt_text' = text
        /\ IF text = <<>>
           THEN /\ display' = [text |-> "Prompt is empty. Exiting.", blocks |-> <<>>]
                /\ pc' = "exit"
           ELSE /\ display' = display
                /\ pc' = "estimate_input"
    /\ UNCHANGED <<mode, PRICING, run, models, input_tokens, iterations,
                   output_tokens_per_iter, total_output_tokens, total_input_tokens,
                   results, loop_index, calls, saved, call>>

\* prompt_text = prompt(...); if not prompt_text or not prompt_text.strip(): ...
ReadPrompt ==
    /\ mode = "script" /\ pc = "prompt"
    /\ \E text \in BlankPrompts \cup Prompts :
        /\ prompt_text' = text
        /\ IF text = <<>> \/ ~StripNonEmpty(text)
           THEN /\ display' = [text |-> "Prompt is empty. Exiting.", blocks |-> <<>>]
                /\ pc' = "exit"
           ELSE /\ display' = display
                /\ pc' = "estimate_input"
    /\ UNCHANGED <<mode, PRICING, run, models, input_tokens, iterations,
                   output_tokens_per_iter, total_output_tokens, total_input_tokens,
                   results, loop_index, calls, saved, call>>

\* input_tokens = estimate_input_tokens(prompt_text)
EstimateInput ==
    /\ mode = "script" /\ pc = "estimate_input"
    /\ input_tokens' = estimate_input_tokens(prompt_text)
    /\ calls' = calls \cup {"estimate_input_tokens"}
    /\ pc' = "deduce"
    /\ UNCHANGED <<mode, PRICING, run, models, prompt_text, iterations,
                   output_tokens_per_iter, total_output_tokens, total_input_tokens,
                   results, loop_index, display, saved, call>>

\* iterations = deduce_iterations(prompt_text, input_tokens)
DeduceIterations ==
    /\ mode = "script" /\ pc = "deduce"
    /\ \E random_factor \in JitterFactors :
        iterations' = deduce_iterations(prompt_text, input_tokens, random_factor)
    /\ calls' = calls \cup {"deduce_iterations"}
    /\ pc' = "estimate_output"
    /\ UNCHANGED <<mode, PRICING, run, models, prompt_text, input_tokens,
                   output_tokens_per_iter, total_output_tokens, total_input_tokens,
                   results, loop_index, display, saved, call>>

\* variant: the projection is scaled by a jitter factor of its own
EstimateOutput_jitter ==
    /\ mode = "script" /\ pc = "estimate_output"
    /\ \E random_factor \in JitterFactors :
        output_tokens_per_iter' =
            FlTrunc(FlMul(FlFromInt(estimate_output_tokens_per_iteration(prompt_text, input_tokens)),
                          random_factor))
    /\ calls' = calls \cup {"estimate_output_tokens_per_iteration"}
    /\ pc' = "totals"
    /\ UNCHANGED <<mode, PRICING, run, models, prompt_text, input_tokens, iterations,
                   total_output_tokens, total_input_tokens,
                   results, loop_index, display, saved, call>>

\* output_tokens_per_iter = estimate_output_tokens_per_iteration(prompt_text, input_tokens)
EstimateOutput ==
    /\ mode = "script" /\ pc = "estimate_output"
    /\ output_tokens_per_iter' =
            estimate_output_tokens_per_iteration(prompt_text, input_tokens)
    /\ calls' = calls \cup {"estimate_output_tokens_per_iteration"}
    /\ pc' = "totals"
    /\ UNCHANGED <<mode, PRICING, run, models, prompt_text, input_tokens, iterations,
                   total_output_tokens, total_input_tokens,
                   results, loop_index, display, saved, call>>

\* variant: the first prompt is not counted as resent
ComputeTotals_resend ==
    /\ mode = "script" /\ pc = "totals"
    /\ total_output_tokens' = output_tokens_per_iter * iterations
    /\ total_input_tokens' = input_tokens * (iterations - 1)
    /\ results' = EmptyResults
    /\ loop_index' = 1
    /\ pc' = "loop"
    /\ UNCHANGED <<mode, PRICING, run, models, prompt_text, input_tokens, iterations,
                   output_tokens_per_iter, display, calls, saved, call>>

\* total_output_tokens = ...; total_input_tokens = ...; results = {}
ComputeTotals ==
    /\ mode = "script" /\ pc = "totals"
    /\ total_output_tokens' = output_tokens_per_iter * iterations
    /\ total_input_tokens' = input_tokens * iterations
    /\ results' = EmptyResults
    /\ loop_index' = 1
    /\ pc' = "loop"
    /\ UNCHANGED <<mode, PRICING, run, models, prompt_text, input_tokens, iterations,
                   output_tokens_per_iter, display, calls, saved, call>>

\* variant: deduce_iterations is called again inside the loop
CostForModel_redraw ==
    /\ mode = "script" /\ pc = "loop" /\ loop_index <= Len(models)
    /\ \E random_factor \in JitterFactors :
        LET m    == models[loop_index]
            its  == deduce_iterations(prompt_text, input_tokens, random_factor)
            cost == calculate_cost(input_tokens * its, output_tokens_per_iter * its, m)
            rec  == [estimated_iterations        |-> its,
                     input_tokens_per_prompt     |-> input_tokens,
                     total_input_tokens          |-> input_tokens * its,
                     output_tokens_per_iteration |-> output_tokens_per_iter,
                     total_output_tokens         |-> output_tokens_per_iter * its,
                     estimated_cost_eur          |-> cost]
        IN  results' = [k \in DOMAIN results \cup {m} |->
                           IF k = m THEN rec ELSE results[k]]
    /\ calls' = calls \cup {"calculate_cost"}
    /\ loop_index' = loop_index + 1
    /\ UNCHANGED <<mode, PRICING, run, pc, models, prompt_text, input_tokens,
                   iterations, output_tokens_per_iter, total_output_tokens,
                   total_input_tokens, display, saved, call>>

\* one pass of `for m in models`: cost = calculate_cost(...); results[m] = {...}
CostForModel ==
    /\ mode = "script" /\ pc = "loop" /\ loop_index <= Len(models)
    /\ LET m    == models[loop_index]
           cost == calculate_cost(total_input_tokens, total_output_tokens, m)
           rec  == [estimated_iterations        |-> iterations,
                    input_tokens_per_prompt     |-> input_tokens,
                    total_input_tokens          |-> total_input_tokens,
                    output_tokens_per_iteration |-> output_tokens_per_iter,
                    total_output_tokens         |-> total_output_tokens,
                    estimated_cost_eur          |-> cost]
       IN  results' = [k \in DOMAIN results \cup {m} |->
                          IF k = m THEN rec ELSE results[k]]
    /\ calls' = calls \cup {"calculate_cost"}
    /\ loop_index' = loop_index + 1
    /\ UNCHANGED <<mode, PRICING, run, pc, models, prompt_text, input_tokens,
                   iterations, output_tokens_per_iter, total_output_tokens,
                   total_input_tokens, display, saved, call>>

\* display_lines from results.items(); print_formatted_text(...)
DisplayResults ==
    /\ mode = "script" /\ pc = "loop" /\ loop_index > Len(models)
    /\ display' = [text   |-> "Estimated Total Coding Session Cost",
                   blocks |-> [i \in 1..Len(models) |->
                                  [model |-> models[i], r |-> results[models[i]]]]]
    /\ pc' = "save"
    /\ UNCHANGED <<mode, PRICING, run, models, prompt_text, input_tokens, iterations,
                   output_tokens_per_iter, total_output_tokens, total_input_tokens,
                   results, loop_index, calls, saved, call>>

\* save_last({"models": models, "prompt": prompt_text, "results": results})
SaveLast ==
    /\ mode = "script" /\ pc = "save"
    /\ saved' = [written |-> TRUE, models |-> models, prompt |-> prompt_text,
                 results |-> results]
    /\ calls' = calls \cup {"save_last"}
    /\ pc' = "exit"
    /\ UNCHANGED <<mode, PRICING, run, models, prompt_text, input_tokens, iterations,
                   output_tokens_per_iter, total_output_tokens, total_input_tokens,
                   results, loop_index, display, call>>

\* the process has ended; the script is started again, the file is still there
RunAgain ==
    /\ mode = "script" /\ pc = "exit" /\ run < MaxRuns
    /\ run' = run + 1
    /\ pc' = "select"
    /\ models' = <<>>
    /\ prompt_text' = <<>>
    /\ input_tokens' = 0
    /\ iterations' = 0
    /\ output_tokens_per_iter' = 0
    /\ total_output_tokens' = 0
    /\ total_input_tokens' = 0
    /\ results' = EmptyResults
    /\ loop_index' = 0
    /\ display' = NoDisplay
    /\ calls' = {}
    /\ UNCHANGED <<mode, PRICING, saved, call>>

\* ------------------------------------------------------------------------
\* The functions applied by an importing caller
\* ------------------------------------------------------------------------

Call_estimate_tokens_by_chars ==
    /\ mode = "import" /\ call = NoCall
    /\ \E text \in CallTexts :
        call' = [NoCall EXCEPT !.fn = "estimate_tokens_by_chars", !.text = text,
                               !.ret = estimate_tokens_by_chars(text)]
    /\ UNCHANGED <<mode, PRICING, run, pc, main_locals, display, calls, saved>>

Call_estimate_tokens_by_words ==
    /\ mode = "import" /\ call = NoCall
    /\ \E text \in CallTexts :
        call' = [NoCall EXCEPT !.fn = "estimate_tokens_by_words", !.text = text,
                               !.ret = estimate_tokens_by_words(text)]
    /\ UNCHANGED <<mode, PRICING, run, pc, main_locals, display, calls, saved>>

Call_estimate_input_tokens ==
    /\ mode = "import" /\ call = NoCall
    /\ \E text \in CallTexts :
        call' = [NoCall EXCEPT !.fn = "estimate_input_tokens", !.text = text,
                               !.ret = estimate_input_tokens(text)]
    /\ UNCHANGED <<mode, PRICING, run, pc, main_locals, display, calls, saved>>

Call_deduce_iterations ==
    /\ mode = "import" /\ call = NoCall
    /\ \E text \in CallTexts, prompt_tokens \in PromptTokenSamples,
          random_factor \in JitterFactors :
        call' = [NoCall EXCEPT !.fn = "deduce_iterations", !.text = text,
                               !.tokens = prompt_tokens, !.factor = random_factor,
                               !.ret = deduce_iterations(text, prompt_tokens, random_factor)]
    /\ UNCHANGED <<mode, PRICING, run, pc, main_locals, display, calls, saved>>

Call_estimate_output_tokens_per_iteration ==
    /\ mode = "import" /\ call = NoCall
    /\ \E text \in CallTexts, prompt_tokens \in PromptTokenSamples :
        call' = [NoCall EXCEPT !.fn = "estimate_output_tokens_per_iteration",
                               !.text = text, !.tokens = prompt_tokens,
                               !.ret = estimate_output_tokens_per_iteration(text, prompt_tokens)]
    /\ UNCHANGED <<mode, PRICING, run, pc, main_locals, display, calls, saved>>

Call_calculate_cost ==
    /\ mode = "import" /\ call = NoCall
    /\ \E tokens_input \in CostTokenSamples, tokens_output \in CostTokenSamples,
          model \in ModelIds :
        call' = [NoCall EXCEPT !.fn = "calculate_cost", !.tokens = tokens_input,
                               !.tokens_output = tokens_output, !.model = model,
                               !.ret = calculate_cost(tokens_input, tokens_output, model)]
    /\ UNCHANGED <<mode, PRICING, run, pc, main_locals, display, calls, saved>>

Next ==
    \/ SelectModels
    \/ ReadPrompt
    \/ EstimateInput
    \/ DeduceIterations
    \/ EstimateOutput
    \/ ComputeTotals
    \/ CostForModel
    \/ DisplayResults
    \/ SaveLast
    \/ RunAgain
    \/ Call_estimate_tokens_by_chars
    \/ Call_estimate_tokens_by_words
    \/ Call_estimate_input_tokens
    \/ Call_deduce_iterations
    \/ Call_estimate_output_tokens_per_iteration
    \/ Call_calculate_cost

Spec == Init /\ [][Next]_vars

\* ------------------------------------------------------------------------
\* Properties
\* ------------------------------------------------------------------------

Range(s) == {s[i] : i \in 1..Len(s)}

\* the base iteration count of a prompt-token tier
TierBase(t) == IF t < 50 THEN 2 ELSE IF t <= 200 THEN 5 ELSE 15

\* the output multiplier of a prompt-token tier
TierMultiplier(t) == IF t < 50 THEN 10 ELSE IF t <= 200 THEN 8 ELSE 5

\* C1 as stated: deduce_iterations returns exactly base + keyword_hits for
\* every text and prompt-token count, so repeated calls agree.
C1_ExactIterations ==
    call.fn = "deduce_iterations" =>
        call.ret = TierBase(call.tokens) + KeywordHits(call.text)

\* C1 amended: with n = base + keyword_hits, deduce_iterations returns a value
\* between max(1, floor(0.9 * n)) and floor(1.1 * n), decided by the jitter
\* factor the call samples, and exactly n when that factor is 1.
C1_JitteredIterations ==
    call.fn = "deduce_iterations" =>
        LET n == TierBase(call.tokens) + KeywordHits(call.text)
        IN  /\ call.ret >= Max2(1, (9 * n) \div 10)
            /\ call.ret <= (11 * n) \div 10
            /\ (call.factor = FlFromInt(1) => call.ret = n)

\* the scenario prompt (base 2, four keyword hits) comes out as 5, not 6
W_C1_JitterLowersScenario ==
    /\ call.fn = "deduce_iterations"
    /\ call.text = ScenarioA
    /\ call.tokens = 13
    /\ call.factor # FlFromInt(1)
    /\ call.ret = 5

\* C2: deduce_iterations returns at least 1 for every text, every
\* prompt-token count >= 0 and every jitter factor in [0.9, 1.1], and so every
\* result record's estimated_iterations is at least 1.
C2_IterationsAtLeastOne ==
    /\ call.fn = "deduce_iterations" => call.ret >= 1
    /\ \A m \in DOMAIN results : results[m].estimated_iterations >= 1

\* the smallest case: no tokens, no keyword, factor 0.9, int(1.8) = 1
W_C2_SmallestIterations ==
    /\ call.fn = "deduce_iterations"
    /\ call.tokens = 0
    /\ KeywordHits(call.text) = 0
    /\ call.factor = FlDiv(9, 10)
    /\ call.ret = 1

\* C3: for every non-empty text each token heuristic returns at least 1:
\* by chars max(1, ceil(len / 4)), by words max(1, floor(words / 0.75)), and
\* the blend is the truncating average of the two.
C3_TokenEstimatesAtLeastOne ==
    /\ (call.fn = "estimate_tokens_by_chars" /\ call.text # <<>>) =>
            /\ call.ret >= 1
            /\ call.ret = Max2(1, (Len(call.text) + 3) \div 4)
    /\ (call.fn = "estimate_tokens_by_words" /\ call.text # <<>>) =>
            /\ call.ret >= 1
            /\ call.ret = Max2(1, (4 * WordCount(call.text)) \div 3)
    /\ (call.fn = "estimate_input_tokens" /\ call.text # <<>>) =>
            /\ call.ret >= 1
            /\ call.ret = (Max2(1, (Len(call.text) + 3) \div 4)
                            + Max2(1, (4 * WordCount(call.text)) \div 3)) \div 2
    /\ "estimate_input_tokens" \in calls => input_tokens >= 1

\* whitespace-only text has zero words and the word heuristic still gives 1
W_C3_NoWords ==
    /\ call.fn = "estimate_tokens_by_words"
    /\ call.text # <<>>
    /\ WordCount(call.text) = 0
    /\ call.ret = 1

\* C4: calculate_cost returns 0 for every model that is not a key of the price
\* table, whatever the token counts, and leaves the price table as it was.
C4_UnknownModelCostsNothing ==
    /\ (call.fn = "calculate_cost" /\ call.model \notin {"claude", "gemini"}) =>
            call.ret = 0
    /\ PRICING = PricingLiteral

W_C4_UnknownModel ==
    /\ call.fn = "calculate_cost"
    /\ call.model = "gpt"
    /\ call.tokens = 49999
    /\ call.tokens_output = 3120
    /\ call.ret = 0

\* C5: for claude and gemini the rounded cost is 0 at (0, 0) and does not
\* decrease when the input count or the output count grows and the other
\* stays.
C5_CostMonotone ==
    (call.fn = "calculate_cost" /\ call.model \in {"claude", "gemini"}) =>
        /\ (call.tokens = 0 /\ call.tokens_output = 0) => call.ret = 0
        /\ \A d \in CostTokenSamples :
            /\ call.tokens <= d =>
                    call.ret <= calculate_cost(d, call.tokens_output, call.model)
            /\ call.tokens_output <= d =>
                    call.ret <= calculate_cost(call.tokens, d, call.model)
            /\ d <= call.tokens =>
                    calculate_cost(d, call.tokens_output, call.model) <= call.ret
            /\ d <= call.tokens_output =>
                    calculate_cost(call.tokens, d, call.model) <= call.ret

W_C5_ZeroAndMore ==
    /\ call.fn = "calculate_cost"
    /\ call.model = "gemini"
    /\ call.tokens = 0
    /\ call.tokens_output = 0
    /\ call.ret = 0
    /\ calculate_cost(1, 0, "gemini") = 115
    /\ calculate_cost(0, 1, "gemini") = 920

\* the fields of a result record that do not depend on the provider
SharedFields(r) ==
    <<r.estimated_iterations, r.input_tokens_per_prompt, r.total_input_tokens,
      r.output_tokens_per_iteration, r.total_output_tokens>>

\* the file holds an earlier run on the prompt of this run
SamePromptSaved == saved.written /\ saved.prompt = prompt_text

\* C6: all result records of a run carry the same iterations and token
\* figures; each cost is calculate_cost of the shared totals for that
\* provider; and the records do not depend on the order of the providers.
C6_ProvidersShareEstimates ==
    /\ \A m1, m2 \in DOMAIN results :
            SharedFields(results[m1]) = SharedFields(results[m2])
    /\ \A m \in DOMAIN results :
            /\ SharedFields(results[m]) =
                    <<iterations, input_tokens, total_input_tokens,
                      output_tokens_per_iter, total_output_tokens>>
            /\ results[m].estimated_cost_eur =
                    calculate_cost(total_input_tokens, total_output_tokens, m)
    /\ ( /\ pc = "save"
         /\ SamePromptSaved
         /\ Range(saved.models) = Range(models)
         /\ \A m \in DOMAIN saved.results :
                saved.results[m].estimated_iterations = iterations )
       => saved.results = results

\* both providers, ticked in the opposite order to the saved run
W_C6_TwoProvidersBothOrders ==
    /\ pc = "save"
    /\ models = <<"gemini", "claude">>
    /\ SamePromptSaved
    /\ saved.models = <<"claude", "gemini">>
    /\ saved.results["claude"].estimated_iterations = iterations
    /\ results["claude"].estimated_cost_eur # results["gemini"].estimated_cost_eur

\* this run was refused: nothing ticked, or a prompt with nothing but blanks
Refused ==
    \/ pc # "select" /\ models = <<>>
    \/ pc \notin {"select", "prompt"} /\ ~StripNonEmpty(prompt_text)

\* C7: with no provider ticked, or an empty or whitespace-only prompt, the run
\* ends on a message: no estimator, projector or cost call, no result record,
\* and save_last is not reached.
C7_RefusedRunDoesNothing ==
    Refused =>
        /\ pc = "exit"
        /\ calls = {}
        /\ DOMAIN results = {}
        /\ display.text \in {"No model selected. Exiting.", "Prompt is empty. Exiting."}
        /\ display.blocks = <<>>
        /\ run = 1 => saved = NoFile

W_C7_BlankPrompt ==
    /\ pc = "exit"
    /\ models # <<>>
    /\ prompt_text # <<>>
    /\ ~StripNonEmpty(prompt_text)
    /\ display.text = "Prompt is empty. Exiting."

\* C8: in every result record total_input_tokens is input_tokens_per_prompt
\* times estimated_iterations and total_output_tokens is
\* output_tokens_per_iteration times the same count, so
\* total_input_tokens >= input_tokens_per_prompt >= 1.
C8_TotalsAreProducts ==
    \A m \in DOMAIN results :
        LET r == results[m]
        IN  /\ r.total_input_tokens = r.input_tokens_per_prompt * r.estimated_iterations
            /\ r.total_output_tokens =
                    r.output_tokens_per_iteration * r.estimated_iterations
            /\ r.total_input_tokens >= r.input_tokens_per_prompt
            /\ r.input_tokens_per_prompt >= 1

W_C8_SeveralIterations ==
    /\ pc = "save"
    /\ \E m \in DOMAIN results :
        /\ results[m].estimated_iterations > 1
        /\ results[m].input_tokens_per_prompt > 1
        /\ results[m].total_output_tokens > results[m].output_tokens_per_iteration

\* C9: two runs on the same prompt and providers that differ in the jitter
\* drawn have the same input_tokens_per_prompt and
\* output_tokens_per_iteration, and their totals and costs are in the ratio of
\* their iteration counts.
C9_JitterOnlyThroughIterations ==
    (pc = "save" /\ SamePromptSaved /\ saved.models = models) =>
        \A m \in DOMAIN results :
            LET r == results[m]
                o == saved.results[m]
            IN  /\ r.input_tokens_per_prompt = o.input_tokens_per_prompt
                /\ r.output_tokens_per_iteration = o.output_tokens_per_iteration
                /\ r.total_input_tokens * o.estimated_iterations =
                        o.total_input_tokens * r.estimated_iterations
                /\ r.total_output_tokens * o.estimated_iterations =
                        o.total_output_tokens * r.estimated_iterations
                /\ r.estimated_cost_eur * o.estimated_iterations =
                        o.estimated_cost_eur * r.estimated_iterations

W_C9_TwoRunsDifferentJitter ==
    /\ pc = "save"
    /\ SamePromptSaved
    /\ saved.models = models
    /\ \E m \in DOMAIN results :
        /\ results[m].estimated_iterations # saved.results[m].estimated_iterations
        /\ results[m].estimated_cost_eur # saved.results[m].estimated_cost_eur

\* C10 as stated: estimate_output_tokens_per_iteration returns
\* floor(prompt_tokens * multiplier * (1 + keyword_hits / max(1, words))),
\* which is >= 0 and never below prompt_tokens * multiplier.
C10_ExactQualityProjection ==
    call.fn = "estimate_output_tokens_per_iteration" =>
        LET w == Max2(1, WordCount(call.text))
            h == KeywordHits(call.text)
            flat == call.tokens * TierMultiplier(call.tokens)
        IN  /\ call.ret = (flat * (w + h)) \div w
            /\ call.ret >= 0
            /\ call.ret >= flat

====
